---------------------------- MODULE Spec2Model ----------------------------
(***************************************************************************)
(* A model of tess_cpm.CPM (src/tess_cpm/tess_cpm.py): the causal pixel    *)
(* model pipeline object, its setup steps (set_target, set_exclusion,      *)
(* set_predictor_pixels), the regularised least-squares fit (lsq), the     *)
(* k-fold cross validation (xval), the sigma clipping loop and the batch   *)
(* driver (_batch, entire_image, difference_image_sap).                    *)
(*                                                                         *)
(* Conventions.                                                            *)
(*  - Python's None is the empty sequence <<>>, a value x that is not None *)
(*    is <<x>> (Some(x)).                                                   *)
(*  - A float is an exact rational <<n, d>> in lowest terms with d > 0, so *)
(*    the linear algebra is computed, not abstracted; rounding is not      *)
(*    modelled.                                                            *)
(*  - A (T x n) array is the sequence of its n columns, each a sequence of *)
(*    T rationals; a length-T vector is a sequence of T rationals.         *)
(*  - A raised exception is the "exc" field of a call's result; the object *)
(*    of the result carries the assignments made before the raise.         *)
(***************************************************************************)
EXTENDS Integers, Sequences, FiniteSets, TLC

VARIABLES self, call, outcome, pc, clip, batch, fitted, ncalls

vars == <<self, call, outcome, pc, clip, batch, fitted, ncalls>>

-----------------------------------------------------------------------------
(* Exact arithmetic standing for numpy's float arithmetic.                 *)

None == <<>>
Some(x) == <<x>>
IsNone(o) == Len(o) = 0
Val(o) == o[1]

Abs(x) == IF x < 0 THEN -x ELSE x
Min(a, b) == IF a < b THEN a ELSE b
Max(a, b) == IF a > b THEN a ELSE b

RECURSIVE GCD(_, _)
GCD(a, b) == IF b = 0 THEN a ELSE GCD(b, a % b)

Rat(n, d) ==
    LET sn == IF d < 0 THEN -n ELSE n
        sd == Abs(d)
        g  == GCD(Abs(sn), sd)
    IN  <<sn \div g, sd \div g>>

RInt(n) == <<n, 1>>
R0 == RInt(0)
(* the operations cancel common factors before they multiply *)
RAdd(a, b) ==
    LET g == GCD(a[2], b[2])
    IN  Rat(a[1] * (b[2] \div g) + b[1] * (a[2] \div g), (a[2] \div g) * b[2])
RMul(a, b) ==
    LET g1 == GCD(Abs(a[1]), b[2])
        g2 == GCD(Abs(b[1]), a[2])
    IN  Rat((a[1] \div g1) * (b[1] \div g2), (a[2] \div g2) * (b[2] \div g1))
RSub(a, b) == RAdd(a, <<-b[1], b[2]>>)
RDiv(a, b) == RMul(a, IF b[1] < 0 THEN <<-b[2], -b[1]>> ELSE <<b[2], b[1]>>)
RNeg(a) == <<-a[1], a[2]>>
RAbs(a) == <<Abs(a[1]), a[2]>>
RLess(a, b) ==
    LET g == GCD(a[2], b[2]) IN a[1] * (b[2] \div g) < b[1] * (a[2] \div g)
RLeq(a, b) ==
    LET g == GCD(a[2], b[2]) IN a[1] * (b[2] \div g) <= b[1] * (a[2] \div g)

RECURSIVE RSumTo(_, _)
RSumTo(v, n) == IF n = 0 THEN R0 ELSE RAdd(RSumTo(v, n - 1), v[n])
RSum(v) == RSumTo(v, Len(v))

RECURSIVE RPow(_, _)
RPow(a, k) == IF k = 0 THEN RInt(1) ELSE RMul(a, RPow(a, k - 1))

VSub(u, v) == [i \in 1..Len(u) |-> RSub(u[i], v[i])]
VDot(u, v) == RSum([i \in 1..Len(u) |-> RMul(u[i], v[i])])

(* the indices of a set, ascending, as numpy's boolean indexing yields them *)
RECURSIVE SortedSeq(_)
SortedSeq(S) ==
    IF S = {} THEN <<>>
    ELSE LET m == CHOOSE x \in S : \A y \in S : x <= y
         IN  <<m>> \o SortedSeq(S \ {m})

Range(q) == {q[i] : i \in 1..Len(q)}

(* a[keep]: the entries of a vector at the kept (1-based) sample numbers *)
Take(v, keep) == LET ix == SortedSeq(keep) IN [i \in 1..Len(ix) |-> v[ix[i]]]

-----------------------------------------------------------------------------
(* The image cube the object is constructed from.                          *)

(* hdulist[1].data["TIME"]: the time stamps of the samples *)
time == <<1, 2, 3>>

(* hdulist[1].data["FLUX"], indexed [row][col][sample]: a 3 x 3 cut-out    *)
(* with three samples per pixel; pixel (1, 2) is a dead (constant) pixel   *)
im_fluxes ==
    << << <<2, 3, 6>>, <<3, 2, 1>>, <<5, 4, 10>> >>,
       << <<1, 2, 2>>, <<1, 1, 3>>, <<1, 1, 1>> >>,
       << <<8, 4, 16>>, <<6, 3, 3>>, <<6, 8, 4>> >> >>

NumSamples == Len(time)
im_sidelength == Len(im_fluxes)

Grid == 0..(im_sidelength * im_sidelength - 1)
RowOf(idx) == idx \div im_sidelength
ColOf(idx) == idx % im_sidelength
Flat(r, c) == r * im_sidelength + c

(* numpy's handling of one integer index into an axis of length n:         *)
(* -n..-1 count from the end, anything else outside 0..n-1 is IndexError   *)
IndexOk(i, n) == -n <= i /\ i < n
NormIndex(i, n) == IF i < 0 THEN i + n ELSE i

(* the median of a sequence of integers, as a rational *)
Median(v) ==
    LET n == Len(v)
        rank(i) == Cardinality({j \in 1..n : v[j] < v[i] \/ (v[j] = v[i] /\ j < i)}) + 1
        at(k) == v[CHOOSE i \in 1..n : rank(i) = k]
    IN  IF n % 2 = 1 THEN RInt(at((n + 1) \div 2))
        ELSE Rat(at(n \div 2) + at(n \div 2 + 1), 2)

RawSeries(r, c) == [t \in 1..NumSamples |-> RInt(im_fluxes[r + 1][c + 1][t])]
pixel_medians(r, c) == Median(im_fluxes[r + 1][c + 1])
flattened_pixel_medians(idx) == pixel_medians(RowOf(idx), ColOf(idx))
rescaled_im_fluxes(r, c) ==
    [t \in 1..NumSamples |->
        RSub(RDiv(RInt(im_fluxes[r + 1][c + 1][t]), pixel_medians(r, c)), RInt(1))]
flattened_rescaled_im_fluxes(idx) == rescaled_im_fluxes(RowOf(idx), ColOf(idx))

-----------------------------------------------------------------------------
(* The object after construction.                                          *)

CPM_init ==
    [ target_row |-> None, target_col |-> None,
      target_fluxes |-> None, target_median |-> None,
      rescaled_target_fluxes |-> None,
      exclusion |-> None, excluded_pixels_mask |-> None,
      method_predictor_pixels |-> None, num_predictor_pixels |-> None,
      predictor_pixels_locations |-> None,
      predictor_pixels_fluxes |-> None,
      rescaled_predictor_pixels_fluxes |-> None,
      rescale |-> None, polynomials |-> None, cpm_regularization |-> None,
      lsq_params |-> None, cpm_params |-> None, poly_params |-> None,
      orig_m |-> None, m |-> None,
      lsq_prediction |-> None,
      const_prediction |-> None, cpm_prediction |-> None,
      poly_prediction |-> None, residual |-> None,
      im_predicted_fluxes |-> None, im_diff |-> None,
      is_target_set |-> FALSE, is_exclusion_set |-> FALSE,
      are_predictors_set |-> FALSE, trained |-> FALSE,
      over_entire_image |-> FALSE, valid |-> None,
      time_interval |-> None, poly_terms |-> None,
      v_matrix |-> None, poly_reg |-> None ]

(* the result of a call: the object, the exception raised ("none" when the *)
(* call returned), and the message printed ("" when none)                  *)
Result(obj, exc, msg) == [obj |-> obj, exc |-> exc, msg |-> msg]
Ok(obj) == Result(obj, "none", "")
Raise(obj, exc) == Result(obj, exc, "")

-----------------------------------------------------------------------------
(* set_target: the assignments of lines 107-108 precede the indexing of    *)
(* line 109, which raises IndexError outside -S..S-1 and counts a negative *)
(* index from the end.  (The display mask target_pixel_mask is left out.)  *)

set_target(s, target_row, target_col) ==
    LET s1 == [s EXCEPT !.target_row = Some(target_row),
                        !.target_col = Some(target_col)]
    IN  IF ~IndexOk(target_row, im_sidelength) \/ ~IndexOk(target_col, im_sidelength)
        THEN Raise(s1, "IndexError")
        ELSE LET r == NormIndex(target_row, im_sidelength)
                 c == NormIndex(target_col, im_sidelength)
             IN  Ok([s1 EXCEPT
                       !.target_fluxes = Some(RawSeries(r, c)),
                       !.target_median = Some(Median(im_fluxes[r + 1][c + 1])),
                       !.rescaled_target_fluxes = Some(rescaled_im_fluxes(r, c)),
                       !.is_target_set = TRUE])

(* the positions a Python slice lo:hi selects on an axis of length n *)
SliceIdx(lo, hi, n) ==
    LET a == IF lo < 0 THEN Max(0, lo + n) ELSE Min(lo, n)
        b == IF hi < 0 THEN Max(0, hi + n) ELSE Min(hi, n)
    IN  a..(b - 1)

(* the band max(0, x-exc) : min(x+exc+1, im_side_length) of lines 136-147 *)
ExcludedBandMissingClamp(x, exc) ==
    SliceIdx(x - exc, Min(x + exc + 1, im_sidelength), im_sidelength)

ExcludedBand(x, exc) ==
    SliceIdx(Max(0, x - exc), Min(x + exc + 1, im_sidelength), im_sidelength)

AllIdx == 0..(im_sidelength - 1)

(* the pixels where excluded_pixels is set to 1, as flattened indices *)
ExcludedPixels(r, c, exc, method) ==
    LET rows == ExcludedBand(r, exc)
        cols == ExcludedBand(c, exc)
        rowband == {Flat(i, j) : i \in rows, j \in AllIdx}
        colband == {Flat(i, j) : i \in AllIdx, j \in cols}
    IN  CASE method = "cross" -> rowband \cup colband
          [] method = "row_exclude" -> rowband
          [] method = "col_exclude" -> colband
          [] method = "closest" -> {Flat(i, j) : i \in rows, j \in cols}
          [] OTHER -> {}

(* excluded_pixels_mask is kept as its .mask: the set of flattened indices *)
(* where excluded_pixels == 0 (True = eligible).  numpy.ma shrinks an      *)
(* all-False mask to nomask, which is the empty set here.                  *)
set_exclusion(s, exclusion, method) ==
    IF s.is_target_set = FALSE
    THEN Result(s, "none",
                "Please set the target pixel to predict using the set_target() method.")
    ELSE LET r == Val(s.target_row)
             c == Val(s.target_col)
         IN  Ok([s EXCEPT
                   !.exclusion = Some(exclusion),
                   !.excluded_pixels_mask =
                       Some(Grid \ ExcludedPixels(r, c, exclusion, method)),
                   !.is_exclusion_set = TRUE])

-----------------------------------------------------------------------------
(* set_predictor_pixels.                                                   *)

(* the sequences of k distinct elements of S: the support of               *)
(* np.random.choice(S, size=k, replace=False)                              *)
RECURSIVE Arrangements(_, _)
Arrangements(S, k) ==
    IF k = 0 THEN {<<>>}
    ELSE UNION {{Append(q, x) : x \in S \ Range(q)} : q \in Arrangements(S, k - 1)}

(* the length-k prefixes of the orders of S that sort it by the total      *)
(* preorder before (the set of pairs <<x, y>> with key(x) <= key(y)):      *)
(* np.argsort(...)[0:k], whose default sort is not stable, so equal keys   *)
(* come in any order                                                       *)
RECURSIVE SortedPrefixes(_, _, _)
SortedPrefixes(S, k, before) ==
    IF k = 0 \/ S = {} THEN {<<>>}
    ELSE LET first == {x \in S : \A y \in S : <<x, y>> \in before}
         IN  UNION {{<<x>> \o q : q \in SortedPrefixes(S \ {x}, k - 1, before)}
                    : x \in first}

(* line 173: diff = |possible_pixel_medians - target_median| *)
BrightnessDiff(s, idx) == RAbs(RSub(flattened_pixel_medians(idx), Val(s.target_median)))

(* lines 180-181: the cosine similarity of pixel idx with the target is    *)
(* d / (sqrt(n) * sqrt(nt)); it is NaN when a norm is zero                 *)
CosDot(s, idx) == VDot(flattened_rescaled_im_fluxes(idx), Val(s.rescaled_target_fluxes))
CosNorm2(idx) == VDot(flattened_rescaled_im_fluxes(idx), flattened_rescaled_im_fluxes(idx))
TargetNorm2(s) == VDot(Val(s.rescaled_target_fluxes), Val(s.rescaled_target_fluxes))
CosIsNaN(s, idx) == CosNorm2(idx) = R0 \/ TargetNorm2(s) = R0

(* cos(p) < cos(q) for two pixels whose similarity is a number: the        *)
(* target's norm is common, so d_p/sqrt(n_p) < d_q/sqrt(n_q)               *)
CosLess(s, p, q) ==
    LET dp == CosDot(s, p)
        dq == CosDot(s, q)
        lp == RMul(RMul(dp, dp), CosNorm2(q))
        lq == RMul(RMul(dq, dq), CosNorm2(p))
    IN  CASE RLess(dp, R0) /\ ~RLess(dq, R0) -> TRUE
          [] ~RLess(dp, R0) /\ RLess(dq, R0) -> FALSE
          [] ~RLess(dp, R0) /\ ~RLess(dq, R0) -> RLess(lp, lq)
          [] OTHER -> RLess(lq, lp)

(* p comes no later than q in np.argsort(cos_similarity)[::-1]: argsort    *)
(* puts NaN last, the reversal puts it first                               *)
CosBefore(s, p, q) ==
    \/ CosIsNaN(s, p)
    \/ ~CosIsNaN(s, q) /\ ~CosLess(s, p, q)

(* lines 168-183: the values chosen_idx can take, or the exception *)
ChosenIdx(s, possible, num_predictor_pixels, method) ==
    CASE method = "random" ->
            IF num_predictor_pixels > Cardinality(possible)
            THEN [exc |-> "ValueError", chosen |-> {}]
            ELSE [exc |-> "none",
                  chosen |-> Arrangements(possible, num_predictor_pixels)]
      [] method = "similar_brightness" ->
            [exc |-> "none",
             chosen |-> SortedPrefixes(possible, num_predictor_pixels,
                          {pq \in possible \X possible :
                              RLeq(BrightnessDiff(s, pq[1]), BrightnessDiff(s, pq[2]))})]
      [] method = "cosine_similarity" ->
            [exc |-> "none",
             chosen |-> SortedPrefixes(possible, num_predictor_pixels,
                          {pq \in possible \X possible : CosBefore(s, pq[1], pq[2])})]
      [] OTHER -> [exc |-> "UnboundLocalError", chosen |-> {}]

(* lines 186-194, for one value of chosen_idx *)
StorePredictors(s, chosen_idx) ==
    LET s1 == [s EXCEPT !.predictor_pixels_locations =
                   Some([i \in 1..Len(chosen_idx) |->
                           <<RowOf(chosen_idx[i]), ColOf(chosen_idx[i])>>])]
    IN  IF Len(chosen_idx) = 0
        THEN Raise(s1, "IndexError")
        ELSE Ok([s1 EXCEPT
                   !.predictor_pixels_fluxes =
                       Some([i \in 1..Len(chosen_idx) |->
                               RawSeries(RowOf(chosen_idx[i]), ColOf(chosen_idx[i]))]),
                   !.rescaled_predictor_pixels_fluxes =
                       Some([i \in 1..Len(chosen_idx) |->
                               flattened_rescaled_im_fluxes(chosen_idx[i])]),
                   !.are_predictors_set = TRUE])

(* the set of results of set_predictor_pixels(num_predictor_pixels, method) *)
(* (the seed only fixes which element of the set a run with method         *)
(* "random" takes; the display mask predictor_pixels_mask is left out)     *)
set_predictor_pixels(s, num_predictor_pixels, method) ==
    IF (s.is_target_set = FALSE) \/ (s.is_exclusion_set = FALSE)
    THEN {Result(s, "none", "Please set the target pixel and exclusion.")}
    ELSE LET s1 == [s EXCEPT !.method_predictor_pixels = Some(method),
                             !.num_predictor_pixels = Some(num_predictor_pixels)]
             possible == Val(s.excluded_pixels_mask)
         IN  IF possible = {} /\ Cardinality(Grid) # 1
             THEN {Raise(s1, "IndexError")}
             ELSE LET c == ChosenIdx(s1, possible, num_predictor_pixels, method)
                  IN  IF c.exc # "none" THEN {Raise(s1, c.exc)}
                      ELSE {StorePredictors(s1, chosen_idx) : chosen_idx \in c.chosen}

(* lines 200-202 *)
set_target_exclusion_predictors(s, target_row, target_col, exclusion, exclusion_method, num_predictor_pixels, predictor_method) ==
    LET a == set_target(s, target_row, target_col)
        b == set_exclusion(a.obj, exclusion, exclusion_method)
    IN  IF a.exc # "none" THEN {a}
        ELSE set_predictor_pixels(b.obj, num_predictor_pixels, predictor_method)

-----------------------------------------------------------------------------
(* Linear algebra on exact rationals.  A (T x n) array is its sequence of  *)
(* n columns; a square matrix of the normal equations is its sequence of   *)
(* rows.                                                                   *)

NRows(M) == Len(M[1])
(* np.dot(M.T, M) *)
Gram(M) == [i \in 1..Len(M) |-> [j \in 1..Len(M) |-> VDot(M[i], M[j])]]
(* np.dot(M.T, y) *)
TransVec(M, y) == [j \in 1..Len(M) |-> VDot(M[j], y)]
(* np.dot(M, x), for Len(M) = Len(x) *)
MatVec(M, x) ==
    [t \in 1..NRows(M) |-> RSum([j \in 1..Len(M) |-> RMul(M[j][t], x[j])])]
(* M[keep, :] *)
MRows(M, keep) == [j \in 1..Len(M) |-> Take(M[j], keep)]
(* q[:n] and q[n:] of Python *)
Upto(q, n) == SubSeq(q, 1, Min(n, Len(q)))
From(q, n) == SubSeq(q, Min(n, Len(q)) + 1, Len(q))

Minor(A, j) ==
    [i \in 1..(Len(A) - 1) |->
        [k \in 1..(Len(A) - 1) |-> A[i + 1][IF k < j THEN k ELSE k + 1]]]

RECURSIVE Det(_)
Det(A) ==
    IF Len(A) = 1 THEN A[1][1]
    ELSE RSum([j \in 1..Len(A) |->
                 LET t == RMul(A[1][j], Det(Minor(A, j)))
                 IN  IF j % 2 = 1 THEN t ELSE RNeg(t)])

(* np.linalg.solve(a, b): LinAlgError for a singular a, ValueError for a   *)
(* shape mismatch, else the solution (Cramer's rule)                       *)
Solve(a, b) ==
    IF Len(a) # Len(b) THEN [exc |-> "ValueError", x |-> <<>>]
    ELSE LET d == Det(a)
         IN  IF d = R0 THEN [exc |-> "LinAlgError", x |-> <<>>]
             ELSE [exc |-> "none",
                   x |-> [i \in 1..Len(a) |->
                            RDiv(Det([r \in 1..Len(a) |->
                                        [c \in 1..Len(a) |->
                                            IF c = i THEN b[r] ELSE a[r][c]]]), d)]]

(* np.dot(m.T, m) + reg_matrix, with reg_matrix the diagonal matrix of     *)
(* diag: numpy broadcasts a (1 x 1) operand over the other one and raises  *)
(* ValueError for any other shape mismatch                                 *)
AddRegMatrix(G, diag) ==
    LET c == Len(G)
        n == Len(diag)
        d(i, j) == IF i = j THEN diag[i] ELSE R0
    IN  CASE c = n ->
               [exc |-> "none",
                a |-> [i \in 1..n |-> [j \in 1..n |-> RAdd(G[i][j], d(i, j))]]]
          [] c # n /\ n = 1 ->
               [exc |-> "none",
                a |-> [i \in 1..c |-> [j \in 1..c |-> RAdd(G[i][j], diag[1])]]]
          [] c # n /\ n # 1 /\ c = 1 ->
               [exc |-> "none",
                a |-> [i \in 1..n |-> [j \in 1..n |-> RAdd(G[1][1], d(i, j))]]]
          [] OTHER -> [exc |-> "ValueError", a |-> <<>>]

Repeat(x, n) == [i \in 1..n |-> x]

-----------------------------------------------------------------------------
(* set_poly_model (lines 96-102; centered_time and scaled_centered_time    *)
(* are folded into v_matrix)                                               *)

SeqMax(v) == CHOOSE x \in Range(v) : \A y \in Range(v) : y <= x
SeqMin(v) == CHOOSE x \in Range(v) : \A y \in Range(v) : x <= y

scaled_centered_time(time_interval) ==
    [t \in 1..NumSamples |->
        RMul(RInt(time_interval),
             RDiv(RSub(RInt(time[t]), Rat(SeqMax(time) + SeqMin(time), 2)),
                  RInt(SeqMax(time) - SeqMin(time))))]

set_poly_model(s, time_interval, poly_terms, poly_reg) ==
    Ok([s EXCEPT
          !.time_interval = Some(time_interval),
          !.poly_terms = Some(poly_terms),
          !.v_matrix = Some([k \in 1..poly_terms |->
                               [t \in 1..NumSamples |->
                                   RPow(scaled_centered_time(time_interval)[t], k - 1)]]),
          !.poly_reg = Some(poly_reg)])

-----------------------------------------------------------------------------
(* lsq.  y and m are None when the fields they are read from are.          *)

MissedAStep(s) ==
    (s.is_target_set = FALSE) \/ (s.is_exclusion_set = FALSE)
        \/ (s.are_predictors_set = FALSE)

(* lines 320-350, with the design matrix m and the diagonal of reg_matrix  *)
lsq_solve(s, msg, m, y, diag, polynomials) ==
    LET N == Val(s.num_predictor_pixels)
        a == AddRegMatrix(Gram(m), diag)
        b == TransVec(m, Val(y))
        sol == Solve(a.a, b)
        s3 == [s EXCEPT !.lsq_params = Some(sol.x),
                        !.cpm_params = Some(Upto(sol.x, N)),
                        !.poly_params = Some(From(sol.x, N))]
        orig_m == Val(s.orig_m)
        pred == MatVec(orig_m, sol.x)
        s4 == [s3 EXCEPT !.lsq_prediction = Some(pred),
                         !.const_prediction = None,
                         !.cpm_prediction = None,
                         !.poly_prediction = None]
        const == From(sol.x, N)[1]
        s5 == [s4 EXCEPT !.const_prediction = Some(const)]
        cpm == MatVec(Upto(orig_m, N), Upto(sol.x, N))
        s6 == [s5 EXCEPT !.cpm_prediction = Some(cpm)]
        poly == [t \in 1..NRows(orig_m) |->
                    RSub(MatVec(From(orig_m, N), From(sol.x, N))[t], const)]
        s7 == IF polynomials THEN [s6 EXCEPT !.poly_prediction = Some(poly)] ELSE s4
        target == Val(s.rescaled_target_fluxes)
    IN  CASE a.exc # "none" -> Result(s, a.exc, msg)
          [] a.exc = "none" /\ IsNone(y) -> Result(s, "TypeError", msg)
          [] a.exc = "none" /\ ~IsNone(y) /\ sol.exc # "none" -> Result(s, sol.exc, msg)
          [] OTHER ->
               CASE IsNone(s.orig_m) -> Result(s3, "TypeError", msg)
                 [] ~IsNone(s.orig_m) /\ Len(orig_m) # Len(sol.x) ->
                      Result(s3, "ValueError", msg)
                 [] OTHER ->
                      CASE polynomials /\ Len(sol.x) <= N -> Result(s4, "IndexError", msg)
                        [] polynomials /\ Len(sol.x) > N
                              /\ Len(Upto(orig_m, N)) # Len(Upto(sol.x, N)) ->
                             Result(s5, "ValueError", msg)
                        [] polynomials /\ Len(sol.x) > N
                              /\ Len(Upto(orig_m, N)) = Len(Upto(sol.x, N))
                              /\ Len(From(orig_m, N)) # Len(From(sol.x, N)) ->
                             Result(s6, "ValueError", msg)
                        [] OTHER ->
                             IF NRows(orig_m) # Len(target) /\ NRows(orig_m) # 1
                             THEN Result([s7 EXCEPT !.trained = TRUE], "ValueError", msg)
                             ELSE Result([s7 EXCEPT
                                            !.trained = TRUE,
                                            !.residual =
                                                Some([t \in 1..Len(target) |->
                                                        RSub(target[t],
                                                             IF NRows(orig_m) = 1
                                                             THEN pred[1] ELSE pred[t])])],
                                         "none", msg)

(* lines 315-317: the first call on an untrained object stores m as the    *)
(* reference design matrix                                                 *)
StoreDesignMatrix(s, m) ==
    IF s.trained = FALSE THEN [s EXCEPT !.orig_m = m, !.m = m]
    ELSE [s EXCEPT !.m = m]

lsq(s, cpm_reg, rescale, polynomials, updated_y, updated_m) ==
    LET msg == IF MissedAStep(s) THEN "You missed a step." ELSE ""
        s1 == [s EXCEPT !.cpm_regularization = Some(cpm_reg),
                        !.rescale = Some(rescale),
                        !.polynomials = Some(polynomials)]
        N == Val(s.num_predictor_pixels)
        given == ~(IsNone(updated_y) /\ IsNone(updated_m))
        y == CASE given -> updated_y
               [] ~given /\ rescale -> s.rescaled_target_fluxes
               [] OTHER -> s.target_fluxes
        m0 == CASE given -> updated_m
                [] ~given /\ rescale -> s.rescaled_predictor_pixels_fluxes
                [] OTHER -> s.predictor_pixels_fluxes
        stack == polynomials /\ IsNone(updated_m)
        m == IF stack THEN Some(Val(m0) \o Val(s.v_matrix)) ELSE m0
        diag == IF polynomials
                THEN Repeat(RInt(cpm_reg), N)
                       \o Repeat(RInt(Val(s.poly_reg)), Val(s.poly_terms))
                ELSE Repeat(RInt(cpm_reg), N)
        s2 == StoreDesignMatrix(s1, m)
    IN  CASE IsNone(s.num_predictor_pixels) -> Result(s1, "TypeError", msg)
          [] ~IsNone(s.num_predictor_pixels) /\ stack
                /\ (IsNone(m0) \/ IsNone(s.v_matrix)) -> Result(s1, "ValueError", msg)
          [] ~IsNone(s.num_predictor_pixels) /\ polynomials /\ ~stack
                /\ IsNone(s.v_matrix) -> Result(s1, "AttributeError", msg)
          [] OTHER ->
               IF IsNone(m) THEN Result(s2, "AttributeError", msg)
               ELSE lsq_solve(s2, msg, Val(m), y, diag, polynomials)

-----------------------------------------------------------------------------
(* xval.                                                                   *)

(* KFold(k).split(time): k contiguous folds, the first n % k of them one   *)
(* sample longer                                                           *)
FoldSize(n, k, i) == (n \div k) + (IF i <= n % k THEN 1 ELSE 0)
RECURSIVE FoldStart(_, _, _)
FoldStart(n, k, i) == IF i = 1 THEN 0 ELSE FoldStart(n, k, i - 1) + FoldSize(n, k, i - 1)
FoldTest(n, k, i) == (FoldStart(n, k, i) + 1)..(FoldStart(n, k, i) + FoldSize(n, k, i))

(* lines 231-257 for one fold *)
xval_fold(s, msg, m, y, diag, polynomials, test) ==
    LET N == Val(s.num_predictor_pixels)
        train == (1..NumSamples) \ test
        m_train == MRows(m, train)
        m_test == MRows(m, test)
        a == AddRegMatrix(Gram(m_train), diag)
        b == TransVec(m_train, Take(y, train))
        sol == Solve(a.a, b)
        s1 == [s EXCEPT !.lsq_params = Some(sol.x),
                        !.cpm_params = Some(Upto(sol.x, N)),
                        !.poly_params = Some(From(sol.x, N))]
        pred == MatVec(m_test, sol.x)
        s2 == [s1 EXCEPT !.lsq_prediction = Some(pred),
                         !.const_prediction = None,
                         !.cpm_prediction = None,
                         !.poly_prediction = None]
        const == From(sol.x, N)[1]
        s3 == [s2 EXCEPT !.const_prediction = Some(const)]
        s4 == [s3 EXCEPT !.cpm_prediction =
                             Some(MatVec(Upto(m_test, N), Upto(sol.x, N)))]
        s5 == IF polynomials
              THEN [s4 EXCEPT !.poly_prediction =
                       Some([t \in 1..NRows(m_test) |->
                               RSub(MatVec(From(m_test, N), From(sol.x, N))[t], const)])]
              ELSE s2
    IN  CASE a.exc # "none" -> Result(s, a.exc, msg)
          [] a.exc = "none" /\ sol.exc # "none" -> Result(s, sol.exc, msg)
          [] a.exc = "none" /\ sol.exc = "none" /\ Len(m_test) # Len(sol.x) ->
               Result(s1, "ValueError", msg)
          [] OTHER ->
               CASE polynomials /\ Len(sol.x) <= N -> Result(s2, "IndexError", msg)
                 [] polynomials /\ Len(sol.x) > N
                       /\ Len(Upto(m_test, N)) # Len(Upto(sol.x, N)) ->
                      Result(s3, "ValueError", msg)
                 [] polynomials /\ Len(sol.x) > N
                       /\ Len(Upto(m_test, N)) = Len(Upto(sol.x, N))
                       /\ Len(From(m_test, N)) # Len(From(sol.x, N)) ->
                      Result(s4, "ValueError", msg)
                 [] OTHER ->
                      Result([s5 EXCEPT !.trained = TRUE,
                                        !.residual = Some(VSub(Take(y, test), pred))],
                             "none", msg)

RECURSIVE xval_folds(_, _, _, _, _, _, _, _)
xval_folds(s, msg, m, y, diag, polynomials, k, i) ==
    IF i > k THEN Result(s, "none", msg)
    ELSE LET r == xval_fold(s, msg, m, y, diag, polynomials, FoldTest(NumSamples, k, i))
         IN  IF r.exc # "none" THEN r
             ELSE xval_folds(r.obj, msg, m, y, diag, polynomials, k, i + 1)

xval(s, cpm_reg, rescale, polynomials, k) ==
    LET msg == IF MissedAStep(s) THEN "You missed a step." ELSE ""
        s1 == [s EXCEPT !.cpm_regularization = Some(cpm_reg),
                        !.rescale = Some(rescale),
                        !.polynomials = Some(polynomials)]
        N == Val(s.num_predictor_pixels)
        m0 == s.rescaled_predictor_pixels_fluxes
        s2 == [s1 EXCEPT !.m = m0]
        m == IF polynomials THEN Val(m0) \o Val(s.v_matrix) ELSE Val(m0)
        diag == IF polynomials
                THEN Repeat(RInt(cpm_reg), N)
                       \o Repeat(RInt(Val(s.poly_reg)), Val(s.poly_terms))
                ELSE Repeat(RInt(cpm_reg), N)
    IN  CASE IsNone(s.num_predictor_pixels) -> Result(s1, "TypeError", msg)
          [] ~IsNone(s.num_predictor_pixels) /\ polynomials
                /\ (IsNone(m0) \/ IsNone(s.v_matrix)) -> Result(s2, "ValueError", msg)
          [] ~IsNone(s.num_predictor_pixels)
                /\ ~(polynomials /\ (IsNone(m0) \/ IsNone(s.v_matrix)))
                /\ (k < 2 \/ k > NumSamples) -> Result(s2, "ValueError", msg)
          [] OTHER ->
               IF IsNone(m0) THEN Result(s2, "TypeError", msg)
               ELSE xval_folds(s2, msg, m, Val(s.rescaled_target_fluxes), diag,
                               polynomials, k, 1)

-----------------------------------------------------------------------------
(* sigma_clip_process: one pass of the while loop.  valid, the set of      *)
(* sample numbers whose entry of the local array valid is True,            *)
(* prev_clipped_counter and iter_num are the locals of the call.           *)

(* |d| > sigma * sqrt(ss / nv): never with nv = 0 (the bound is NaN) *)
ExceedsBoundary(d, sigma, ss, nv) ==
    CASE nv = 0 -> FALSE
      [] nv # 0 /\ sigma < 0 -> ss # R0 \/ d # R0
      [] OTHER -> RLess(RMul(RInt(sigma * sigma), ss), RMul(RMul(d, d), RInt(nv)))

(* lines 445-447 *)
rerun(s) ==
    IF IsNone(s.orig_m) THEN Raise(s, "TypeError")
    ELSE lsq(s, Val(s.cpm_regularization), Val(s.rescale), Val(s.polynomials),
             Some(Take(Val(s.rescaled_target_fluxes), Val(s.valid))),
             Some(MRows(Val(s.orig_m), Val(s.valid))))

(* line 431 *)
ClipAssignAll(valid, over) == (1..NumSamples) \ over

Clip(valid, over) == valid \ over

(* lines 420-423: the model the target is compared with *)
ClipModel(s, subtract_polynomials) ==
    IF (subtract_polynomials = FALSE) /\ ~IsNone(s.cpm_prediction)
    THEN Some([t \in 1..Len(Val(s.cpm_prediction)) |->
                 RAdd(Val(s.cpm_prediction)[t], Val(s.const_prediction))])
    ELSE s.lsq_prediction

(* line 425, a model of one entry being broadcast *)
ClipDiff(target, model) ==
    [t \in 1..Len(target) |->
        RSub(target[t], IF Len(model) = 1 THEN model[1] ELSE model[t])]

(* lines 429-431: the samples beyond sigma_boundary *)
ClipOver(diff, valid, sigma) ==
    LET kept == Take(diff, valid)
        ss == RSum([i \in 1..Len(kept) |-> RMul(kept[i], kept[i])])
    IN  {t \in 1..Len(diff) : ExceedsBoundary(diff[t], sigma, ss, Cardinality(valid))}

ClipFrame(v, p, i) == [valid |-> v, prev_clipped_counter |-> p, iter_num |-> i]

PassResult(r, left, frame) ==
    [obj |-> r.obj, exc |-> r.exc, msg |-> r.msg, left |-> left, frame |-> frame]

(* lines 432-440, with valid as line 431 left it *)
sigma_clip_count(s, valid, prev_clipped_counter, iter_num) ==
    LET total_clipped_counter == NumSamples - Cardinality(valid)
        current_clipped_counter == total_clipped_counter - prev_clipped_counter
    IN  IF current_clipped_counter = 0
        THEN PassResult(Ok(s), TRUE, ClipFrame(valid, prev_clipped_counter, iter_num))
        ELSE PassResult(rerun([s EXCEPT !.valid = Some(valid)]), FALSE,
                        ClipFrame(valid, prev_clipped_counter + current_clipped_counter,
                                  iter_num + 1))

(* lines 420-440: the result of one pass: the object, the locals, whether  *)
(* the loop was left by break, and the exception raised                    *)
sigma_clip_pass(s, valid, prev_clipped_counter, iter_num, sigma, subtract_polynomials) ==
    LET same == ClipFrame(valid, prev_clipped_counter, iter_num)
        model == ClipModel(s, subtract_polynomials)
        target == Val(s.rescaled_target_fluxes)
    IN  CASE IsNone(model) -> PassResult(Raise(s, "TypeError"), FALSE, same)
          [] ~IsNone(model) /\ Len(Val(model)) # 1 /\ Len(Val(model)) # Len(target) ->
               PassResult(Raise(s, "ValueError"), FALSE, same)
          [] OTHER ->
               sigma_clip_count(s, Clip(valid, ClipOver(ClipDiff(target, Val(model)),
                                                        valid, sigma)),
                                prev_clipped_counter, iter_num)

-----------------------------------------------------------------------------
(* _batch, entire_image, difference_image_sap.                             *)
(* im_predicted_fluxes and im_diff map each flattened pixel index to its   *)
(* time series, or to None where np.empty's memory was never written (the  *)
(* values there are arbitrary).                                            *)

(* lines 369-370 *)
batch_begin(s, cpm_reg) ==
    [s EXCEPT !.cpm_regularization = Some(cpm_reg),
              !.im_predicted_fluxes = Some([idx \in Grid |-> None])]

(* lines 376-379: the series stored for the pixel *)
BatchPrediction(s, polynomials) ==
    IF polynomials
    THEN [t \in 1..Len(Val(s.cpm_prediction)) |->
             RAdd(Val(s.cpm_prediction)[t], Val(s.const_prediction))]
    ELSE Val(s.lsq_prediction)

(* lines 372-379: the results of one pass of the loop of _batch *)
batch_pixel(s, cpm_reg, row, col, exclusion, exclusion_method, num_predictor_pixels, predictor_method, rescale, polynomials) ==
    LET a == set_target(s, row, col)
        b == set_exclusion(a.obj, exclusion, exclusion_method)
        store(d) ==
            LET idx == Flat(NormIndex(row, im_sidelength), NormIndex(col, im_sidelength))
            IN  IF d.exc # "none" THEN d
                ELSE Ok([d.obj EXCEPT !.im_predicted_fluxes =
                           Some([Val(d.obj.im_predicted_fluxes) EXCEPT
                                   ![idx] = Some(BatchPrediction(d.obj, polynomials))])])
        fit(c) ==
            IF c.exc # "none" THEN c
            ELSE store(lsq(c.obj, cpm_reg, rescale, polynomials, None, None))
    IN  IF a.exc # "none" THEN {a}
        ELSE {fit(c) :
                c \in set_predictor_pixels(b.obj, num_predictor_pixels, predictor_method)}

(* line 380 *)
batch_end(s) ==
    [s EXCEPT !.im_diff =
        Some([idx \in Grid |->
                IF IsNone(Val(s.im_predicted_fluxes)[idx]) THEN None
                ELSE Some(VSub(flattened_rescaled_im_fluxes(idx),
                               Val(Val(s.im_predicted_fluxes)[idx])))])]

(* lines 384-387: every pixel, row by row *)
EntireImagePixels ==
    [i \in 1..Cardinality(Grid) |-> <<RowOf(i - 1), ColOf(i - 1)>>]

(* lines 400-403: the (2*size+1)^2 neighbourhood, row by row *)
NeighbourhoodPixels(row, col, size) ==
    LET side == 2 * size + 1
    IN  [i \in 1..(side * side) |->
            <<row - size + ((i - 1) \div side), col - size + ((i - 1) % side)>>]

(* lines 408-410: the pixels of the aperture and their summed series; the  *)
(* sum is None (arbitrary) when it reads a pixel that was never written    *)
Aperture(row, col, size) ==
    {Flat(i, j) :
        i \in SliceIdx(Max(0, row - size), Min(row + size + 1, im_sidelength), im_sidelength),
        j \in SliceIdx(Max(0, col - size), Min(col + size + 1, im_sidelength), im_sidelength)}

aperture_lc(s, row, col, size) ==
    LET px == SortedSeq(Aperture(row, col, size))
        diff == Val(s.im_diff)
    IN  IF \E i \in 1..Len(px) : IsNone(diff[px[i]]) THEN None
        ELSE Some([t \in 1..NumSamples |->
                     RSum([i \in 1..Len(px) |-> Val(diff[px[i]])[t]])])

-----------------------------------------------------------------------------
(* The calls a session makes, and the values it passes.                    *)

MaxExclusion == 1
MaxPredictors == 2

(* the pixels passed to set_target: every pixel of the image, and some     *)
(* positions outside 0..S-1                                                *)
OutOfRange == {<<-1, 0>>, <<1, -1>>, <<im_sidelength, 1>>, <<0, im_sidelength>>}
TargetArgs == (AllIdx \X AllIdx) \cup OutOfRange
ExclusionSizes == 0..MaxExclusion
ExclusionMethods == {"closest", "cross", "row_exclude", "col_exclude"}
PredictorCounts == 1..MaxPredictors
PredictorMethods == {"random", "similar_brightness", "cosine_similarity"}
Regs == {0, 1}
PolyTerms == {1}
TimeIntervals == {2}
Folds == {2, NumSamples}
Sigmas == {0, 1}
ApertureSizes == {0, 1}

(* the last call issued and its arguments (0, "" and FALSE where the call  *)
(* has no such argument)                                                   *)
NoCall ==
    [ op |-> "__init__", row |-> 0, col |-> 0, size |-> 0,
      exclusion |-> 0, exclusion_method |-> "",
      num_predictor_pixels |-> 0, predictor_method |-> "",
      cpm_reg |-> 0, rescale |-> FALSE, polynomials |-> FALSE,
      k |-> 0, sigma |-> 0, subtract_polynomials |-> FALSE,
      time_interval |-> 0, poly_terms |-> 0, poly_reg |-> 0 ]

(* the locals of sigma_clip_process and of _batch (pending: the pixels     *)
(* still to visit, done: those visited)                                    *)
NoClip == [valid |-> {}, prev_clipped_counter |-> 0, iter_num |-> 0]
NoBatch == [pending |-> <<>>, done |-> <<>>]

Outcome(exc, msg, ret) == [exc |-> exc, msg |-> msg, ret |-> ret]

Init ==
    /\ self = CPM_init
    /\ call = NoCall
    /\ outcome = Outcome("none", "", None)
    /\ pc = "idle"
    /\ clip = NoClip
    /\ batch = NoBatch
    /\ fitted = FALSE
    /\ ncalls = 0

(* a call that runs to its end in one step; fitted records that some call *)
(* of lsq has returned normally                                            *)
Return(res, c) ==
    /\ self' = res.obj
    /\ outcome' = Outcome(res.exc, res.msg, None)
    /\ call' = c
    /\ pc' = "idle"
    /\ clip' = NoClip
    /\ batch' = NoBatch
    /\ fitted' = (fitted \/ (c.op = "lsq" /\ res.exc = "none"))

SetTarget ==
    /\ pc = "idle"
    /\ \E px \in TargetArgs :
          Return(set_target(self, px[1], px[2]),
                 [NoCall EXCEPT !.op = "set_target", !.row = px[1], !.col = px[2]])

SetExclusion ==
    /\ pc = "idle"
    /\ \E exclusion \in ExclusionSizes, method \in ExclusionMethods :
          Return(set_exclusion(self, exclusion, method),
                 [NoCall EXCEPT !.op = "set_exclusion", !.exclusion = exclusion,
                                !.exclusion_method = method])

SetPredictorPixels ==
    /\ pc = "idle"
    /\ \E n \in PredictorCounts, method \in PredictorMethods :
          \E res \in set_predictor_pixels(self, n, method) :
              Return(res,
                     [NoCall EXCEPT !.op = "set_predictor_pixels",
                                    !.num_predictor_pixels = n,
                                    !.predictor_method = method])

(* the configurations a session of fits sets up in one call *)
FitConfigs ==
    { [row |-> 0, col |-> 0, exclusion |-> 0, exclusion_method |-> "closest",
       num_predictor_pixels |-> 1, predictor_method |-> "similar_brightness"],
      [row |-> 1, col |-> 1, exclusion |-> 0, exclusion_method |-> "closest",
       num_predictor_pixels |-> 2, predictor_method |-> "cosine_similarity"],
      [row |-> 0, col |-> 0, exclusion |-> 1, exclusion_method |-> "cross",
       num_predictor_pixels |-> 2, predictor_method |-> "similar_brightness"],
      [row |-> 2, col |-> 1, exclusion |-> 1, exclusion_method |-> "closest",
       num_predictor_pixels |-> 1, predictor_method |-> "random"] }

SetTargetExclusionPredictors ==
    /\ pc = "idle"
    /\ \E cfg \in FitConfigs :
          \E res \in set_target_exclusion_predictors(self, cfg.row, cfg.col,
                        cfg.exclusion, cfg.exclusion_method,
                        cfg.num_predictor_pixels, cfg.predictor_method) :
              Return(res,
                     [NoCall EXCEPT !.op = "set_target_exclusion_predictors",
                                    !.row = cfg.row, !.col = cfg.col,
                                    !.exclusion = cfg.exclusion,
                                    !.exclusion_method = cfg.exclusion_method,
                                    !.num_predictor_pixels = cfg.num_predictor_pixels,
                                    !.predictor_method = cfg.predictor_method])

SetPolyModel ==
    /\ pc = "idle"
    /\ \E ti \in TimeIntervals, pt \in PolyTerms, pr \in Regs :
          Return(set_poly_model(self, ti, pt, pr),
                 [NoCall EXCEPT !.op = "set_poly_model", !.time_interval = ti,
                                !.poly_terms = pt, !.poly_reg = pr])

Lsq ==
    /\ pc = "idle"
    /\ \E reg \in Regs, rescale \in BOOLEAN, polynomials \in BOOLEAN :
          Return(lsq(self, reg, rescale, polynomials, None, None),
                 [NoCall EXCEPT !.op = "lsq", !.cpm_reg = reg, !.rescale = rescale,
                                !.polynomials = polynomials])

Xval ==
    /\ pc = "idle"
    /\ \E reg \in Regs, polynomials \in BOOLEAN, k \in Folds :
          Return(xval(self, reg, TRUE, polynomials, k),
                 [NoCall EXCEPT !.op = "xval", !.cpm_reg = reg, !.rescale = TRUE,
                                !.polynomials = polynomials, !.k = k])

(* lines 415-418: the locals before the first pass *)
SigmaClipProcess ==
    /\ pc = "idle"
    /\ \E sigma \in Sigmas, subtract \in BOOLEAN :
          call' = [NoCall EXCEPT !.op = "sigma_clip_process", !.sigma = sigma,
                                 !.subtract_polynomials = subtract]
    /\ clip' = [valid |-> 1..NumSamples, prev_clipped_counter |-> 0, iter_num |-> 1]
    /\ pc' = "sigma_clip"
    /\ outcome' = Outcome("running", "", None)
    /\ batch' = NoBatch
    /\ UNCHANGED <<self, fitted>>

(* the step a pass with result r makes *)
PassStep(r) ==
    /\ self' = r.obj
    /\ clip' = r.frame
    /\ IF r.left \/ r.exc # "none"
       THEN pc' = "idle" /\ outcome' = Outcome(r.exc, r.msg, None)
       ELSE pc' = "sigma_clip" /\ UNCHANGED outcome
    /\ fitted' = (fitted \/ (~r.left /\ r.exc = "none"))

SigmaClipPass ==
    /\ pc = "sigma_clip"
    /\ PassStep(sigma_clip_pass(self, clip.valid, clip.prev_clipped_counter,
                                clip.iter_num, call.sigma, call.subtract_polynomials))
    /\ UNCHANGED <<call, batch>>

(* the shared configurations a batch is run with: one whose every pixel  *)
(* has eligible predictors, one that leaves the central pixel none, one    *)
(* with the polynomial components                                          *)
BatchConfigs ==
    { [cpm_reg |-> 1, exclusion |-> 0, exclusion_method |-> "closest",
       num_predictor_pixels |-> 1, predictor_method |-> "similar_brightness",
       rescale |-> TRUE, polynomials |-> FALSE],
      [cpm_reg |-> 1, exclusion |-> 1, exclusion_method |-> "closest",
       num_predictor_pixels |-> 1, predictor_method |-> "similar_brightness",
       rescale |-> FALSE, polynomials |-> FALSE],
      [cpm_reg |-> 1, exclusion |-> 0, exclusion_method |-> "cross",
       num_predictor_pixels |-> 1, predictor_method |-> "similar_brightness",
       rescale |-> TRUE, polynomials |-> TRUE] }

(* the pixels an aperture is asked around: the centre and a corner *)
SapPixels == {<<1, 1>>, <<0, 0>>}

BatchCall(op, row, col, size, cfg) ==
    [NoCall EXCEPT !.op = op, !.row = row, !.col = col, !.size = size,
                   !.cpm_reg = cfg.cpm_reg,
                   !.exclusion = cfg.exclusion,
                   !.exclusion_method = cfg.exclusion_method,
                   !.num_predictor_pixels = cfg.num_predictor_pixels,
                   !.predictor_method = cfg.predictor_method,
                   !.rescale = cfg.rescale, !.polynomials = cfg.polynomials]

EntireImage ==
    /\ pc = "idle"
    /\ \E cfg \in BatchConfigs :
          /\ call' = BatchCall("entire_image", 0, 0, 0, cfg)
          /\ self' = batch_begin(self, cfg.cpm_reg)
    /\ batch' = [pending |-> EntireImagePixels, done |-> <<>>]
    /\ pc' = "batch"
    /\ outcome' = Outcome("running", "", None)
    /\ clip' = NoClip
    /\ UNCHANGED fitted

(* line 399: the batch is run unless a pass over the entire image is there *)
RunsBatchAlways(s) == TRUE

RunsBatch(s) == s.over_entire_image = FALSE

(* lines 408-411 *)
SapReturn(s, row, col, size) ==
    Outcome("none", "", Some([aperture |-> Aperture(row, col, size),
                              aperture_lc |-> aperture_lc(s, row, col, size)]))

DifferenceImageSap ==
    /\ pc = "idle"
    /\ \E px \in SapPixels, size \in ApertureSizes, cfg \in BatchConfigs :
          /\ call' = BatchCall("difference_image_sap", px[1], px[2], size, cfg)
          /\ IF RunsBatch(self)
             THEN /\ self' = batch_begin(self, cfg.cpm_reg)
                  /\ batch' = [pending |-> NeighbourhoodPixels(px[1], px[2], size),
                               done |-> <<>>]
                  /\ pc' = "batch"
                  /\ outcome' = Outcome("running", "", None)
             ELSE /\ UNCHANGED <<self, pc>>
                  /\ batch' = NoBatch
                  /\ outcome' = SapReturn(self, px[1], px[2], size)
    /\ clip' = NoClip
    /\ UNCHANGED fitted

(* one pass of the loop of _batch; after the last one, line 380 and the    *)
(* rest of the caller (line 392, or lines 408-411)                         *)
BatchPass ==
    /\ pc = "batch"
    /\ LET px == Head(batch.pending)
       IN  \E r \in batch_pixel(self, call.cpm_reg, px[1], px[2], call.exclusion,
                                call.exclusion_method, call.num_predictor_pixels,
                                call.predictor_method, call.rescale, call.polynomials) :
            /\ fitted' = (fitted \/ r.exc = "none")
            /\ CASE r.exc # "none" ->
                        /\ self' = r.obj
                        /\ pc' = "idle"
                        /\ outcome' = Outcome(r.exc, r.msg, None)
                        /\ UNCHANGED batch
                   [] r.exc = "none" /\ Len(batch.pending) > 1 ->
                        /\ self' = r.obj
                        /\ batch' = [pending |-> Tail(batch.pending),
                                     done |-> Append(batch.done, px)]
                        /\ UNCHANGED <<pc, outcome>>
                   [] OTHER ->
                        LET s2 == batch_end(r.obj)
                        IN  /\ batch' = [pending |-> <<>>, done |-> Append(batch.done, px)]
                            /\ pc' = "idle"
                            /\ IF call.op = "entire_image"
                               THEN /\ self' = [s2 EXCEPT !.over_entire_image = TRUE]
                                    /\ outcome' = Outcome("none", "", None)
                               ELSE /\ self' = s2
                                 /\ outcome' = SapReturn(s2, call.row, call.col, call.size)
    /\ UNCHANGED <<call, clip>>

-----------------------------------------------------------------------------
(* The specifications.  ncalls counts the calls of a session; a session of *)
(* at most n calls takes its steps by Counted(n, A), one of any length by  *)
(* Unbounded(A).                                                           *)

MaxCalls == 4
MaxPrereqCalls == 3

Counted(n, A) == ncalls < n /\ ncalls' = ncalls + 1 /\ A
Unbounded(A) == UNCHANGED ncalls /\ A

(* set_target and set_exclusion, in any order, any number of times *)
ExclusionNext ==
    \/ Unbounded(SetTarget)
    \/ Unbounded(SetExclusion)

ExclusionSpec == Init /\ [][ExclusionNext]_vars

(* the three setup steps, in any order *)
SetupNext ==
    \/ Counted(MaxCalls, SetTarget)
    \/ Counted(MaxCalls, SetExclusion)
    \/ Counted(MaxCalls - 1, SetPredictorPixels)

SetupSpec == Init /\ [][SetupNext]_vars

(* the setup steps and the two fits, in any order: short sessions *)
PrereqNext ==
    \/ Counted(MaxPrereqCalls, SetTarget)
    \/ Counted(MaxPrereqCalls, SetExclusion)
    \/ Counted(MaxPrereqCalls, SetPredictorPixels)
    \/ Counted(MaxPrereqCalls, Lsq)
    \/ Counted(MaxPrereqCalls, Xval)

PrereqSpec == Init /\ [][PrereqNext]_vars

(* a session of fits: the pipeline is configured once, then fitted,       *)
(* cross-validated and clipped by at most MaxFitCalls calls                *)
MaxFitCalls == 3

Configure == self.is_target_set = FALSE /\ SetTargetExclusionPredictors

FitNext ==
    \/ Unbounded(Configure)
    \/ Counted(MaxFitCalls, Lsq)
    \/ Counted(MaxFitCalls, Xval)
    \/ Counted(MaxFitCalls, SigmaClipProcess)
    \/ Unbounded(SigmaClipPass)

FitSpec == Init /\ [][FitNext]_vars

(* a session of clipping: the pipeline and its polynomial model are set,   *)
(* then at most MaxClipCalls calls fit and clip                            *)
MaxClipCalls == 2

ClipNext ==
    \/ Unbounded(Configure)
    \/ Unbounded(SetPolyModel)
    \/ Counted(MaxClipCalls, Lsq)
    \/ Counted(MaxClipCalls, SigmaClipProcess)
    \/ Unbounded(SigmaClipPass)

ClipSpec == Init /\ [][ClipNext]_vars

(* a session of batches: at most MaxBatchCalls calls set a target or the  *)
(* polynomial model, run the entire image or sum an aperture               *)
MaxBatchCalls == 3

BatchNext ==
    \/ Counted(MaxBatchCalls, SetTarget)
    \/ Counted(MaxBatchCalls, SetPolyModel)
    \/ Counted(MaxBatchCalls, EntireImage)
    \/ Counted(MaxBatchCalls, DifferenceImageSap)
    \/ Unbounded(BatchPass)

BatchSpec == Init /\ [][BatchNext]_vars

-----------------------------------------------------------------------------
(* The properties.  call holds the arguments of the call made last,        *)
(* outcome what it raised, printed and returned.                           *)

(* C5: for each exclusion method, every in-bounds target and every size    *)
(* >= 0, the eligible set set_exclusion stores is a subset of the grid,    *)
(* does not contain the target pixel, and is the complement of the band or *)
(* block within size of the target, cut at the image boundary.             *)
C5_EligibleSetClamped ==
    (/\ call.op = "set_exclusion"
     /\ self.is_target_set
     /\ Val(self.target_row) \in AllIdx
     /\ Val(self.target_col) \in AllIdx)
    => LET r == Val(self.target_row)
           c == Val(self.target_col)
           exc == call.exclusion
           near(x, y) == Abs(x - y) <= exc
           eligible == Val(self.excluded_pixels_mask)
       IN  /\ self.is_exclusion_set
           /\ self.exclusion = Some(exc)
           /\ eligible \subseteq Grid
           /\ Flat(r, c) \notin eligible
           /\ \A i \in AllIdx, j \in AllIdx :
                 Flat(i, j) \in eligible <=>
                    ~ CASE call.exclusion_method = "cross" -> near(i, r) \/ near(j, c)
                        [] call.exclusion_method = "row_exclude" -> near(i, r)
                        [] call.exclusion_method = "col_exclude" -> near(j, c)
                        [] OTHER -> near(i, r) /\ near(j, c)

(* a block of size 1 around the corner (0, 0) is cut at the boundary *)
C5_Witness ==
    /\ call.op = "set_exclusion"
    /\ call.exclusion = 1
    /\ call.exclusion_method = "closest"
    /\ self.target_row = Some(0)
    /\ self.target_col = Some(0)
    /\ self.excluded_pixels_mask = Some({2, 5, 6, 7, 8})

(* C3: set_predictor_pixels(count, method), called with target and         *)
(* exclusion set, reports an error and does not mark the predictors as set *)
(* whenever fewer than count positions are eligible.                       *)
C3_FailsWhenTooFewEligible ==
    [][(/\ call'.op = "set_predictor_pixels"
        /\ self.is_target_set
        /\ self.is_exclusion_set
        /\ Cardinality(Val(self.excluded_pixels_mask)) < call'.num_predictor_pixels)
       => (/\ outcome'.exc # "none"
           /\ self'.are_predictors_set = self.are_predictors_set)]_vars

(* C4: after set_predictor_pixels(count, method) has completed,            *)
(* predictor_pixels_locations holds exactly count pairwise distinct        *)
(* positions, each eligible in the exclusion mask, none the target pixel.  *)
C4_ExactlyCountEligiblePositions ==
    (/\ call.op = "set_predictor_pixels"
     /\ outcome.exc = "none"
     /\ outcome.msg = "")
    => LET loc == Val(self.predictor_pixels_locations)
           target == <<NormIndex(Val(self.target_row), im_sidelength),
                       NormIndex(Val(self.target_col), im_sidelength)>>
       IN  /\ Len(loc) = call.num_predictor_pixels
           /\ \A i, j \in 1..Len(loc) : i # j => loc[i] # loc[j]
           /\ \A i \in 1..Len(loc) :
                 /\ Flat(loc[i][1], loc[i][2]) \in Val(self.excluded_pixels_mask)
                 /\ loc[i] # target

(* C10: whenever the three flags are all true, the stored exclusion mask   *)
(* is one built around the current target with the stored size, and the    *)
(* stored predictor positions do not contain the current target pixel.     *)
C10_FlagsImplyCurrentTarget ==
    (self.is_target_set /\ self.is_exclusion_set /\ self.are_predictors_set)
    => LET r == NormIndex(Val(self.target_row), im_sidelength)
           c == NormIndex(Val(self.target_col), im_sidelength)
           loc == Val(self.predictor_pixels_locations)
       IN  /\ \E method \in ExclusionMethods :
                 self.excluded_pixels_mask =
                     Some(Grid \ ExcludedPixels(r, c, Val(self.exclusion), method))
           /\ \A i \in 1..Len(loc) : loc[i] # <<r, c>>

(* C2: a call made before its required setup step is reported and leaves   *)
(* every field of the object unchanged.                                    *)
C2_PrerequisiteNotMetLeavesObject ==
    [][(\/ call'.op = "set_exclusion" /\ ~self.is_target_set
        \/ call'.op = "set_predictor_pixels"
              /\ (~self.is_target_set \/ ~self.is_exclusion_set)
        \/ call'.op \in {"lsq", "xval"} /\ MissedAStep(self))
       => (/\ self' = self
           /\ (outcome'.msg # "" \/ outcome'.exc # "none"))]_vars

(* C8: set_target with a row or column outside 0..S-1 is reported as an    *)
(* error and does not set the target, called directly or by the batch of   *)
(* difference_image_sap for a pixel of the neighbourhood.                  *)
C8_OutOfRangeTargetReported ==
    [][/\ (/\ call'.op = "set_target"
           /\ (call'.row \notin AllIdx \/ call'.col \notin AllIdx))
          => (/\ outcome'.exc # "none"
              /\ self'.target_fluxes = self.target_fluxes
              /\ self'.is_target_set = self.is_target_set)
       /\ (/\ pc = "batch"
           /\ call.op = "difference_image_sap"
           /\ (Head(batch.pending)[1] \notin AllIdx
                  \/ Head(batch.pending)[2] \notin AllIdx))
          => (/\ pc' = "idle"
              /\ outcome'.exc # "none"
              /\ self'.target_fluxes = self.target_fluxes)]_vars

(* C1: every series a batch has stored equals the prediction that          *)
(* set_target, set_exclusion, set_predictor_pixels and lsq, with the       *)
(* configuration of the batch, yield for that pixel on a freshly           *)
(* constructed object (with the same polynomial model).                    *)
C1_BatchPredictsFromOwnMatrix ==
    (call.op \in {"entire_image", "difference_image_sap"} /\ Len(batch.done) > 0)
    => LET fresh == batch_begin([CPM_init EXCEPT
                                   !.time_interval = self.time_interval,
                                   !.poly_terms = self.poly_terms,
                                   !.v_matrix = self.v_matrix,
                                   !.poly_reg = self.poly_reg], call.cpm_reg)
           idx(px) == Flat(NormIndex(px[1], im_sidelength),
                           NormIndex(px[2], im_sidelength))
           alone(px) ==
               {r \in batch_pixel(fresh, call.cpm_reg, px[1], px[2], call.exclusion,
                                  call.exclusion_method, call.num_predictor_pixels,
                                  call.predictor_method, call.rescale,
                                  call.polynomials) : r.exc = "none"}
       IN  \A i \in 1..Len(batch.done) :
              \E r \in alone(batch.done[i]) :
                 Val(self.im_predicted_fluxes)[idx(batch.done[i])]
                    = Val(r.obj.im_predicted_fluxes)[idx(batch.done[i])]

(* C7: a full-frame pass is recorded exactly when entire_image completes;  *)
(* with one recorded, difference_image_sap runs no batch, leaves the       *)
(* object unchanged and returns the aperture summed out of the stored      *)
(* difference cube; with none recorded, it starts a batch over the         *)
(* (2*size+1)^2 pixels around (row, col).                                  *)
C7_SapReusesFullFramePass ==
    [][/\ (self'.over_entire_image # self.over_entire_image)
          => (/\ call.op = "entire_image"
              /\ pc = "batch"
              /\ Len(batch.pending) = 1
              /\ pc' = "idle"
              /\ outcome'.exc = "none"
              /\ self'.over_entire_image)
       /\ (call.op = "entire_image" /\ pc = "batch" /\ pc' = "idle"
              /\ outcome'.exc = "none")
          => self'.over_entire_image
       /\ (pc = "idle" /\ call'.op = "difference_image_sap" /\ self.over_entire_image)
          => (/\ pc' = "idle"
              /\ self' = self
              /\ batch'.done = <<>>
              /\ outcome'.exc = "none"
              /\ LET box == {Flat(i, j) :
                               i \in {x \in AllIdx : Abs(x - call'.row) <= call'.size},
                               j \in {x \in AllIdx : Abs(x - call'.col) <= call'.size}}
                     px == SortedSeq(box)
                     diff == Val(self.im_diff)
                 IN  /\ Val(outcome'.ret).aperture = box
                     /\ Val(outcome'.ret).aperture_lc =
                           Some([t \in 1..NumSamples |->
                                   RSum([i \in 1..Len(px) |-> Val(diff[px[i]])[t]])]))
       /\ (pc = "idle" /\ call'.op = "difference_image_sap" /\ ~self.over_entire_image)
          => (/\ pc' = "batch"
              /\ Len(batch'.pending) = (2 * call'.size + 1) * (2 * call'.size + 1)
              /\ \A i \in 1..Len(batch'.pending) :
                    /\ Abs(batch'.pending[i][1] - call'.row) <= call'.size
                    /\ Abs(batch'.pending[i][2] - call'.col) <= call'.size
              /\ \A i, j \in 1..Len(batch'.pending) :
                    i # j => batch'.pending[i] # batch'.pending[j])]_vars

(* an aperture summed after entire_image has completed *)
C7_Witness ==
    /\ call.op = "difference_image_sap"
    /\ call.size = 1
    /\ pc = "idle"
    /\ self.over_entire_image
    /\ outcome.exc = "none"
    /\ ~IsNone(outcome.ret)
    /\ ~IsNone(Val(outcome.ret).aperture_lc)

(* C6: in sigma_clip_process a sample once clipped stays clipped, a pass  *)
(* that clips no new sample ends the loop, the loop is left by break only  *)
(* in such a pass, every other pass counts one more iteration, and no call *)
(* runs more than T + 1 iterations.                                        *)
C6_ClipMonotoneAndBounded ==
    [][pc = "sigma_clip"
       => (/\ clip'.valid \subseteq clip.valid
           /\ clip.iter_num <= NumSamples + 1
           /\ clip'.iter_num <= NumSamples + 1
           /\ (clip'.valid = clip.valid) => pc' = "idle"
           /\ (pc' = "idle" /\ outcome'.exc = "none") => clip'.valid = clip.valid
           /\ (clip'.valid # clip.valid)
                 => (/\ clip'.iter_num = clip.iter_num + 1
                     /\ clip'.prev_clipped_counter
                           = NumSamples - Cardinality(clip'.valid)))]_vars

(* a call in its third iteration, two passes having clipped samples *)
C6_Witness ==
    /\ call.op = "sigma_clip_process"
    /\ clip.iter_num >= 3
    /\ Cardinality(clip.valid) < NumSamples - 1

(* C9: the first call of lsq that returns normally stores its design       *)
(* matrix as orig_m; a re-fit of the sigma clipping leaves orig_m          *)
(* unchanged, solves on the valid rows only, and leaves a prediction and a *)
(* residual of one entry per time sample computed from orig_m.             *)
C9_ReferenceMatrixFrozen ==
    [][/\ (call'.op = "lsq" /\ outcome'.exc = "none" /\ ~fitted)
          => self'.orig_m = self'.m
       /\ pc = "sigma_clip" => self'.orig_m = self.orig_m
       /\ (pc = "sigma_clip" /\ pc' = "sigma_clip")
          => (/\ self'.valid = Some(clip'.valid)
              /\ self'.m = Some(MRows(Val(self.orig_m), clip'.valid))
              /\ Len(Val(self'.lsq_prediction)) = NumSamples
              /\ Len(Val(self'.residual)) = NumSamples
              /\ self'.lsq_prediction =
                    Some(MatVec(Val(self.orig_m), Val(self'.lsq_params))))]_vars

(* C11: on a configured pipeline, between calls of xval, lsq and           *)
(* sigma_clip_process, trained = True implies that the reference design    *)
(* matrix orig_m is defined.                                               *)
C11_TrainedHasReferenceMatrix ==
    (/\ pc = "idle"
     /\ self.is_target_set
     /\ self.is_exclusion_set
     /\ self.are_predictors_set
     /\ self.trained)
    => ~IsNone(self.orig_m)

(* C12: when sigma_clip_process returns, the stored mask valid is the set  *)
(* of samples the loop of that call retained: all samples when the first   *)
(* iteration clips nothing, never None nor the mask of an earlier call.    *)
C12_StoredMaskIsRetainedSet ==
    [][(/\ pc = "sigma_clip"
        /\ pc' = "idle"
        /\ outcome'.exc = "none")
       => self'.valid = Some(clip'.valid)]_vars

=============================================================================
